---- MODULE Spec2Model ----
(***************************************************************************)
(* A model of antage/eventsource: the coordinator goroutine                *)
(* (controlProcess), the per-consumer delivery goroutine started by        *)
(* newConsumer, and the public calls SendEventMessage / SendRetryMessage / *)
(* Close / ServeHTTP / ConsumersCount.                                     *)
(*                                                                         *)
(* Go channels are modelled by what the language defines for them:         *)
(*   - a buffered channel is a sequence bounded by its capacity;           *)
(*   - a send on a closed channel and a close of a closed channel panic;   *)
(*   - a receive on a closed channel first drains the buffer and then      *)
(*     yields (zero, false);                                               *)
(*   - a select picks any ready case.                                      *)
(* A panic in a goroutine the package starts itself (controlProcess, the   *)
(* delivery loop) cannot be recovered by anyone and ends the process; a    *)
(* panic in a public call unwinds into the caller and is recorded.         *)
(***************************************************************************)
EXTENDS Integers, Sequences, FiniteSets, TLC

\* ---------------------------------------------------------------- bounds

\* SendEventMessage / SendRetryMessage calls issued over a run.
MaxSend == 2
\* Close calls issued over a run.
MaxClose == 2
\* sendMessage calls issued over a run that fills a queue.
MaxBurst == 12

\* The longest id, event or data handed to SendEventMessage when the encoding
\* is checked on its own.
MaxLen == 3

\* The largest number of whole milliseconds, either side of zero, in the
\* durations handed to SendRetryMessage when the encoding is checked on its own.
MaxMs == 20

\* Settings.IdleTimeout, in units of the clock of the timed specification.
IdleTimeout == 2

\* The connections handed to ServeHTTP over a run (one consumer each).
ConnSeq == <<"c1", "c2">>
Conns == {ConnSeq[i] : i \in DOMAIN ConnSeq}

\* ------------------------------------------------------ program constants

\* make(chan []byte, 10): capacity of a consumer's inbound queue.
QueueCap == 10
\* make(chan message, 1): capacity of es.sink.
SinkCap == 1
\* make(chan *consumer, 1): capacity of es.staled.
StaledCap == 1
\* time.Millisecond, in nanoseconds (the unit of time.Duration).
Millisecond == 1000000

\* ------------------------------------------------------- message encoding

NL == "\n"

RECURSIVE Flatten(_)
\* bytes.Buffer / concatenation of byte slices.
Flatten(ss) == IF ss = <<>> THEN <<>> ELSE Head(ss) \o Flatten(Tail(ss))

RECURSIVE ReplaceFirst(_)
\* Mutant of Replace: strings.Replace(s, "\n", "", 1), only the first newline removed.
ReplaceFirst(s) ==
    IF s = <<>> THEN <<>>
    ELSE IF Head(s) = NL THEN Tail(s)
         ELSE <<Head(s)>> \o ReplaceFirst(Tail(s))

RECURSIVE Replace(_)
\* strings.Replace(s, "\n", "", -1): every newline removed.
Replace(s) ==
    IF s = <<>> THEN <<>>
    ELSE IF Head(s) = NL THEN Replace(Tail(s))
         ELSE <<Head(s)>> \o Replace(Tail(s))

RECURSIVE SplitAcc(_, _)
\* strings.Split(s, "\n") with the segment being read in cur.
SplitAcc(s, cur) ==
    IF s = <<>> THEN <<cur>>
    ELSE IF Head(s) = NL THEN <<cur>> \o SplitAcc(Tail(s), <<>>)
         ELSE SplitAcc(Tail(s), Append(cur, Head(s)))

\* Mutant of Split: the lines as a line scanner yields them, without the empty
\* segment after a trailing newline.
SplitScanner(s) ==
    IF s # <<>> /\ s[Len(s)] = NL
    THEN SplitAcc(SubSeq(s, 1, Len(s) - 1), <<>>)
    ELSE SplitAcc(s, <<>>)

Split(s) == SplitAcc(s, <<>>)

Digit(d) == CASE d = 0 -> "0" [] d = 1 -> "1" [] d = 2 -> "2" [] d = 3 -> "3"
              [] d = 4 -> "4" [] d = 5 -> "5" [] d = 6 -> "6" [] d = 7 -> "7"
              [] d = 8 -> "8" [] d = 9 -> "9"

RECURSIVE Decimal(_)
\* The digits of a natural number.
Decimal(n) == IF n < 10 THEN <<Digit(n)>>
              ELSE Append(Decimal(n \div 10), Digit(n % 10))

\* fmt.Sprintf("%d", n) for a signed integer.
FormatInt(n) == IF n < 0 THEN <<"-">> \o Decimal(-n) ELSE Decimal(n)

\* Go's integer division truncates toward zero.
GoDiv(a, b) == IF a >= 0 THEN a \div b ELSE -((-a) \div b)

IdPrefix == <<"i", "d", ":", " ">>
EventPrefix == <<"e", "v", "e", "n", "t", ":", " ">>
DataPrefix == <<"d", "a", "t", "a", ":", " ">>
RetryPrefix == <<"r", "e", "t", "r", "y", ":", " ">>

\* Mutant of DataLines: the data is written as it came behind one "data: ",
\* so only its first line carries the field name.
DataLines_PrefixOnce(lines) ==
    Flatten([i \in 1..Len(lines) |->
                (IF i = 1 THEN DataPrefix ELSE <<>>) \o lines[i] \o <<NL>>])

\* for _, line := range lines { "data: %s\n" }
DataLines(lines) == Flatten([i \in 1..Len(lines) |-> DataPrefix \o lines[i] \o <<NL>>])

\* Mutant of prepareEventMessage: the event line is written before the id line.
prepareEventMessage_EventFirst(m) ==
    (IF Len(m.event) > 0 THEN EventPrefix \o Replace(m.event) \o <<NL>> ELSE <<>>)
    \o (IF Len(m.id) > 0 THEN IdPrefix \o Replace(m.id) \o <<NL>> ELSE <<>>)
    \o (IF Len(m.data) > 0 THEN DataLines(Split(m.data)) ELSE <<>>)
    \o <<NL>>

\* (*eventMessage).prepareMessage
prepareEventMessage(m) ==
    (IF Len(m.id) > 0 THEN IdPrefix \o Replace(m.id) \o <<NL>> ELSE <<>>)
    \o (IF Len(m.event) > 0 THEN EventPrefix \o Replace(m.event) \o <<NL>> ELSE <<>>)
    \o (IF Len(m.data) > 0 THEN DataLines(Split(m.data)) ELSE <<>>)
    \o <<NL>>

\* Mutant of prepareRetryMessage: the duration is printed as it is, in
\* nanoseconds, without the division by time.Millisecond.
prepareRetryMessage_Nanos(m) ==
    RetryPrefix \o FormatInt(m.retry) \o <<NL, NL>>

\* (*retryMessage).prepareMessage
prepareRetryMessage(m) ==
    RetryPrefix \o FormatInt(GoDiv(m.retry, Millisecond)) \o <<NL, NL>>

\* message.prepareMessage, dispatched on the dynamic type.
prepareMessage(m) ==
    IF m.type = "event" THEN prepareEventMessage(m) ELSE prepareRetryMessage(m)

\* SendEventMessage(data, event, id): em := &eventMessage{id, event, data}
EventMessage(data, event, id) ==
    [type |-> "event", id |-> id, event |-> event, data |-> data]

\* SendRetryMessage(t): &retryMessage{t}
RetryMessage(t) == [type |-> "retry", retry |-> t]

\* The messages the publishers of a run choose from.
Messages ==
    { EventMessage(<<"a", NL>>, <<>>, <<"1", NL, "1">>),
      RetryMessage(2 * Millisecond + 500000) }

\* The k-th message of a burst: a ticker that numbers its events, as in the
\* README's SendEventMessage("tick", "tick-event", strconv.Itoa(id)).
BurstMessage(k) ==
    EventMessage(<<"t", "i", "c", "k">>,
                 <<"t", "i", "c", "k", "-", "e", "v", "e", "n", "t">>,
                 FormatInt(k))

\* ------------------------------------------------------------------ state

VARIABLES
    closeOnTimeout, \* es.closeOnTimeout (Settings.CloseOnTimeout), fixed by New
    sink,           \* es.sink: the buffered messages, oldest first
    staledCh,       \* es.staled (the channel): the buffered stale reports
    shut,           \* how many of close(es.sink), close(es.add), close(es.staled), close(es.close) have run
    consumers,      \* es.consumers: the registry, in list order
    pcCtl,          \* controlProcess: "select" | "push" | "remove" | "closeIn" | "closing" | "queues" | "returned" | "panicked"
    pcServe,        \* ServeHTTP(c): "idle" | "add" | "returned" | "failed" | "nohijack" | "panicked"
    pcLoop,         \* delivery goroutine of c: "none" | "select" | "write" | "report" | "done" | "panicked"
    in,             \* consumer.in: the buffered entries of each consumer
    inClosed,       \* consumer.in has been closed
    staled,         \* consumer.staled (the flag)
    cur,            \* the message the delivery loop has dequeued and is writing
    closes,         \* how many times Close was invoked on consumer.conn
    written,        \* what the delivery loop wrote to consumer.conn, in order
    nSend,          \* sendMessage calls issued so far
    nClose,         \* Close calls issued so far
    panics,         \* the public calls that panicked in their caller
    crash,          \* the panic that ended the process, or "none"
    nPub,           \* history: publishes the coordinator has received from es.sink
    published,      \* history: their encodings, in the order received
    regAt,          \* history: nPub when the coordinator registered c
    full,           \* history: a publish found c's queue full
    wfail,          \* history: a write of c's delivery loop returned an error
    exitVia,        \* history: how c's delivery loop ended
    atClose,        \* history: the registry when the coordinator received from es.close
    hdr,            \* history: the handshake writes newConsumer completed on c's connection
    adds,           \* history: PushBack calls the coordinator has completed
    removes,        \* history: stale reports that removed their consumer from the registry
    elapsed,        \* time units since c's idle timer was armed (NewTimer or Reset), up to IdleTimeout
    tickC,          \* idleTimer.C of c's delivery loop holds the value an expiry sent
    gzipped,        \* consumer.conn of c is a gzipConn around the network connection
    zerr,           \* the error c's gzip.Writer has kept from a failed write ("none": none)
    netCloses,      \* number of times Close was executed on c's network connection
    qi,             \* the list position the coordinator's shutdown loop is at (0: not in the loop)
    cStaled,        \* the c of case c := <-es.staled while the coordinator is in that case ("none": it is not)
    cAdd            \* the c of case c := <-es.add while the coordinator is in that case ("none": it is not)

vars == <<closeOnTimeout, sink, staledCh, shut, consumers, pcCtl, pcServe, pcLoop,
          in, inClosed, staled, cur, closes, written, nSend, nClose, panics, crash,
          nPub, published, regAt, full, wfail, exitVia, atClose, hdr, adds, removes,
          elapsed, tickC, gzipped, zerr, netCloses, qi, cStaled, cAdd>>

\* No message being written.
NoMsg == [n |-> 0, b |-> <<>>]

\* The elements of a list.
Range(s) == {s[i] : i \in DOMAIN s}

Min(S) == CHOOSE x \in S : \A y \in S : x <= y

\* The process has not been ended by a panic of one of its own goroutines.
Alive == crash = "none"

\* The coordinator closes its channels in this order (case <-es.close).
sinkClosed == shut >= 1
addClosed == shut >= 2
staledClosed == shut >= 3
closeClosed == shut >= 4

\* New(settings, customHeadersFunc): the channels, the empty list, go controlProcess.
Init ==
    /\ closeOnTimeout \in BOOLEAN
    /\ sink = <<>>
    /\ staledCh = <<>>
    /\ shut = 0
    /\ consumers = <<>>
    /\ pcCtl = "select"
    /\ pcServe = [c \in Conns |-> "idle"]
    /\ pcLoop = [c \in Conns |-> "none"]
    /\ in = [c \in Conns |-> <<>>]
    /\ inClosed = [c \in Conns |-> FALSE]
    /\ staled = [c \in Conns |-> FALSE]
    /\ cur = [c \in Conns |-> NoMsg]
    /\ closes = [c \in Conns |-> 0]
    /\ written = [c \in Conns |-> <<>>]
    /\ nSend = 0
    /\ nClose = 0
    /\ panics = {}
    /\ crash = "none"
    /\ nPub = 0
    /\ published = <<>>
    /\ regAt = [c \in Conns |-> 0]
    /\ full = [c \in Conns |-> FALSE]
    /\ wfail = [c \in Conns |-> FALSE]
    /\ exitVia = [c \in Conns |-> "none"]
    /\ atClose = <<>>
    /\ hdr = [c \in Conns |-> <<>>]
    /\ adds = 0
    /\ removes = 0
    /\ elapsed = [c \in Conns |-> 0]
    /\ tickC = [c \in Conns |-> FALSE]
    /\ gzipped = [c \in Conns |-> FALSE]
    /\ zerr = [c \in Conns |-> "none"]
    /\ netCloses = [c \in Conns |-> 0]
    /\ qi = 0
    /\ cStaled = "none"
    /\ cAdd = "none"

\* ------------------------------------------------------- the public calls

\* sendMessage(m): es.sink <- m. The send blocks while the buffer is full, and
\* panics when es.sink is closed.
sendMessage(m) ==
    /\ Alive
    /\ IF sinkClosed
       THEN /\ panics' = panics \cup {"sendMessage"}
            /\ sink' = sink
       ELSE /\ Len(sink) < SinkCap
            /\ sink' = Append(sink, m)
            /\ panics' = panics
    /\ nSend' = nSend + 1
    /\ UNCHANGED <<closeOnTimeout, staledCh, shut, consumers, pcCtl, pcServe, pcLoop,
                   in, inClosed, staled, cur, closes, written, nClose, crash,
                   nPub, published, regAt, full, wfail, exitVia, atClose,
                   hdr, adds, removes, elapsed, tickC, gzipped, zerr, netCloses, qi, cStaled, cAdd>>

\* SendEventMessage(data, event, id)
SendEventMessage(data, event, id) == sendMessage(EventMessage(data, event, id))

\* SendRetryMessage(t)
SendRetryMessage(t) == sendMessage(RetryMessage(t))

\* ConsumersCount(): es.consumers.Len() under the read lock.
ConsumersCount == Len(consumers)

\* The header lines es.customHeadersFunc(req) returns, in its order (those of
\* the README and of TestConnectionWithCustomHeaders).
customHeadersFunc == <<"X-Accel-Buffering: no", "Access-Control-Allow-Origin: *">>

StatusWrite == "HTTP/1.1 200 OK\r\nContent-Type: text/event-stream\r\n"
VaryWrite == "Vary: Accept-Encoding\r\n"
GzipWrite == "Content-Encoding: gzip\r\n"
CRLF == "\r\n"

\* for _, header := range es.customHeadersFunc(req): the header, then "\r\n".
HeaderWrites(hs) == Flatten([i \in 1..Len(hs) |-> <<hs[i], CRLF>>])

\* Mutant of HandshakeWrites: the blank line is written before the extra headers.
HandshakeWrites_BlankFirst(gz) ==
    <<StatusWrite, VaryWrite>>
    \o (IF gz THEN <<GzipWrite>> ELSE <<>>)
    \o <<CRLF>>
    \o HeaderWrites(customHeadersFunc)

\* The conn.Write calls of newConsumer, in program order; gz is the value of
\* es.gzip && (req == nil || the request accepts gzip).
HandshakeWrites(gz) ==
    <<StatusWrite, VaryWrite>>
    \o (IF gz THEN <<GzipWrite>> ELSE <<>>)
    \o HeaderWrites(customHeadersFunc)
    \o <<CRLF>>

\* The outcomes of resp.(http.Hijacker).Hijack() that end newConsumer before
\* its first write, as values of its parameter k: the response writer is not
\* a Hijacker (the type assertion panics), and Hijack returns an error.
NotHijacker == -2
HijackFails == -1

\* Mutant of newConsumer: a failed write closes the connection, but the
\* delivery goroutine is started and the consumer returned all the same.
newConsumer_FailIgnored(c, gz, k) ==
    /\ Alive
    /\ pcServe[c] = "idle"
    /\ k \in NotHijacker..Len(HandshakeWrites(gz))
    /\ IF k < 0
       THEN /\ pcServe' = [pcServe EXCEPT ![c] = IF k = NotHijacker THEN "panicked" ELSE "nohijack"]
            /\ panics' = IF k = NotHijacker THEN panics \cup {"ServeHTTP"} ELSE panics
            /\ UNCHANGED <<hdr, pcLoop, closes, gzipped, netCloses>>
       ELSE /\ hdr' = [hdr EXCEPT ![c] = IF k = 0 THEN HandshakeWrites(gz)
                                         ELSE SubSeq(HandshakeWrites(gz), 1, k - 1)]
            /\ pcServe' = [pcServe EXCEPT ![c] = "add"]
            /\ pcLoop' = [pcLoop EXCEPT ![c] = "select"]
            /\ closes' = IF k = 0 THEN closes ELSE [closes EXCEPT ![c] = @ + 1]
            /\ gzipped' = [gzipped EXCEPT ![c] = gz]
            /\ netCloses' = IF k = 0 THEN netCloses ELSE [netCloses EXCEPT ![c] = @ + 1]
            /\ panics' = panics
    /\ UNCHANGED <<closeOnTimeout, sink, staledCh, shut, consumers, pcCtl,
                   in, inClosed, staled, cur, written, nSend, nClose, crash,
                   nPub, published, regAt, full, wfail, exitVia, atClose,
                   adds, removes, elapsed, tickC, zerr, qi, cStaled, cAdd>>

\* newConsumer(resp, req, es), as ServeHTTP calls it. k is what goes wrong:
\* NotHijacker, the type assertion panics in the handler; HijackFails, Hijack
\* returns an error and newConsumer returns it with nothing written and
\* nothing closed; k >= 1, the k-th handshake write fails, the connection is
\* closed and the error returned; 0, nothing: the delivery goroutine is
\* started and ServeHTTP goes on to es.add <- cons. On an error ServeHTTP logs
\* it and returns. hdr records the writes that succeeded.
newConsumer(c, gz, k) ==
    /\ Alive
    /\ pcServe[c] = "idle"
    /\ k \in NotHijacker..Len(HandshakeWrites(gz))
    /\ IF k = NotHijacker
       THEN /\ pcServe' = [pcServe EXCEPT ![c] = "panicked"]
            /\ panics' = panics \cup {"ServeHTTP"}
            /\ UNCHANGED <<hdr, pcLoop, closes, gzipped, netCloses>>
       ELSE IF k = HijackFails
       THEN /\ pcServe' = [pcServe EXCEPT ![c] = "nohijack"]
            /\ UNCHANGED <<panics, hdr, pcLoop, closes, gzipped, netCloses>>
       ELSE IF k = 0
       THEN /\ hdr' = [hdr EXCEPT ![c] = HandshakeWrites(gz)]
            /\ pcServe' = [pcServe EXCEPT ![c] = "add"]
            /\ pcLoop' = [pcLoop EXCEPT ![c] = "select"]
            /\ gzipped' = [gzipped EXCEPT ![c] = gz]
            /\ UNCHANGED <<panics, closes, netCloses>>
       ELSE /\ hdr' = [hdr EXCEPT ![c] = SubSeq(HandshakeWrites(gz), 1, k - 1)]
            /\ pcServe' = [pcServe EXCEPT ![c] = "failed"]
            /\ closes' = [closes EXCEPT ![c] = @ + 1]
            /\ netCloses' = [netCloses EXCEPT ![c] = @ + 1]
            /\ UNCHANGED <<panics, pcLoop, gzipped>>
    /\ UNCHANGED <<closeOnTimeout, sink, staledCh, shut, consumers, pcCtl,
                   in, inClosed, staled, cur, written, nSend, nClose, crash,
                   nPub, published, regAt, full, wfail, exitVia, atClose,
                   adds, removes, elapsed, tickC, zerr, qi, cStaled, cAdd>>

\* ServeHTTP at es.add <- cons with es.add closed: the send panics in the handler.
ServeHTTP_addClosed(c) ==
    /\ Alive
    /\ pcServe[c] = "add"
    /\ addClosed
    /\ pcServe' = [pcServe EXCEPT ![c] = "panicked"]
    /\ panics' = panics \cup {"ServeHTTP"}
    /\ UNCHANGED <<closeOnTimeout, sink, staledCh, shut, consumers, pcCtl, pcLoop,
                   in, inClosed, staled, cur, closes, written, nSend, nClose, crash,
                   nPub, published, regAt, full, wfail, exitVia, atClose,
                   hdr, adds, removes, elapsed, tickC, gzipped, zerr, netCloses, qi, cStaled, cAdd>>

\* ---------------------------------------------------------- controlProcess

\* Mutant of Enqueue: the message is put at the head of the queue.
EnqueueFront(q, e) == IF Len(q) < QueueCap THEN <<e>> \o q ELSE q

\* Mutant of Enqueue: the queue is taken for full one message early.
EnqueueOffByOne(q, e) == IF Len(q) < QueueCap - 1 THEN Append(q, e) ELSE q

\* case c.in <- message: / default: one non-blocking send into a queue.
Enqueue(q, e) == IF Len(q) < QueueCap THEN Append(q, e) ELSE q

\* Mutant of SendReady: a plain c.in <- message, which waits for a free slot.
SendReadyBlocking(q) == Len(q) < QueueCap

\* select { case c.in <- message: default: }: with the default case the
\* coordinator goes on whatever the state of the queue.
SendReady(q) == TRUE

\* The registry entries the fan-out loop sends to: those whose staled flag it
\* reads as false. The flag is written by the delivery goroutine with no
\* synchronisation, so a flag that is true may still be read as false: seen is
\* the set of consumers whose true flag the loop does observe.
Targets(seen) == {c \in Range(consumers) : ~staled[c] \/ c \notin seen}

\* The list positions at which the fan-out loop would send on a closed queue.
ClosedAt(seen) == {i \in DOMAIN consumers : consumers[i] \in Targets(seen) /\ inClosed[consumers[i]]}

\* case em := <-es.sink: encode once, then one non-blocking send per registry
\* entry not observed stale, in list order; a send on a closed queue panics and
\* ends the loop (and the process) there.
controlProcess_sink ==
    /\ Alive
    /\ pcCtl = "select"
    /\ sink # <<>>
    /\ \E seen \in SUBSET {c \in Range(consumers) : staled[c]} :
         LET message == prepareMessage(Head(sink))
             e == [n |-> nPub + 1, b |-> message]
             bad == ClosedAt(seen)
             stop == IF bad = {} THEN Len(consumers) + 1 ELSE Min(bad)
             sent == {consumers[i] : i \in {j \in DOMAIN consumers : j < stop}} \cap Targets(seen)
         IN  /\ \A c \in sent : SendReady(in[c])
             /\ in' = [c \in Conns |-> IF c \in sent THEN Enqueue(in[c], e) ELSE in[c]]
             /\ full' = [c \in Conns |-> full[c] \/ (c \in sent /\ Len(in[c]) >= QueueCap)]
             /\ published' = Append(published, message)
             /\ crash' = IF bad = {} THEN crash ELSE "send on closed channel"
             /\ pcCtl' = IF bad = {} THEN pcCtl ELSE "panicked"
    /\ sink' = Tail(sink)
    /\ nPub' = nPub + 1
    /\ UNCHANGED <<closeOnTimeout, staledCh, shut, consumers, pcServe, pcLoop,
                   inClosed, staled, cur, closes, written, nSend, nClose, panics,
                   regAt, wfail, exitVia, atClose,
                   hdr, adds, removes, elapsed, tickC, gzipped, zerr, netCloses, qi, cStaled, cAdd>>

\* Mutant of ListInit: the registry is left as it was.
ListInitSkipped(l) == l

\* es.consumers.Init(): the list emptied.
ListInit(l) == <<>>

\* Close(): es.close <- true, an unbuffered channel. With es.close closed the
\* send panics in the caller; otherwise it completes when the coordinator, at
\* its select, receives it (case <-es.close), and Close returns there: the
\* coordinator has yet to close anything.
Close ==
    /\ Alive
    /\ nClose' = nClose + 1
    /\ IF closeClosed
       THEN /\ panics' = panics \cup {"Close"}
            /\ UNCHANGED <<pcCtl, atClose>>
       ELSE /\ pcCtl = "select"
            /\ pcCtl' = "closing"
            /\ atClose' = consumers
            /\ panics' = panics
    /\ UNCHANGED <<closeOnTimeout, sink, staledCh, shut, consumers, pcServe, pcLoop,
                   in, inClosed, staled, cur, closes, written, nSend, crash,
                   nPub, published, regAt, full, wfail, exitVia,
                   hdr, adds, removes, elapsed, tickC, gzipped, zerr, netCloses, qi, cStaled, cAdd>>

\* case <-es.close, the four closes: close(es.sink), close(es.add),
\* close(es.staled), close(es.close), one per step; after the last the
\* coordinator is at the front of the list.
controlProcess_closeChan ==
    /\ Alive
    /\ pcCtl = "closing"
    /\ shut' = shut + 1
    /\ pcCtl' = IF shut' = 4 THEN "queues" ELSE "closing"
    /\ qi' = IF shut' = 4 THEN 1 ELSE qi
    /\ UNCHANGED <<closeOnTimeout, sink, staledCh, consumers, pcServe, pcLoop,
                   in, inClosed, staled, cur, closes, written, nSend, nClose, panics, crash,
                   nPub, published, regAt, full, wfail, exitVia, atClose,
                   hdr, adds, removes, elapsed, tickC, gzipped, zerr, netCloses, cStaled, cAdd>>

\* case <-es.close, the loop over the list: close(c.in) for the entry at qi; a
\* close of a closed queue panics.
controlProcess_closeQueue ==
    /\ Alive
    /\ pcCtl = "queues"
    /\ qi <= Len(consumers)
    /\ LET c == consumers[qi]
       IN  /\ inClosed' = [inClosed EXCEPT ![c] = TRUE]
           /\ crash' = IF inClosed[c] THEN "close of closed channel" ELSE crash
           /\ pcCtl' = IF inClosed[c] THEN "panicked" ELSE pcCtl
    /\ qi' = qi + 1
    /\ UNCHANGED <<closeOnTimeout, sink, staledCh, shut, consumers, pcServe, pcLoop,
                   in, staled, cur, closes, written, nSend, nClose, panics,
                   nPub, published, regAt, full, wfail, exitVia, atClose,
                   hdr, adds, removes, elapsed, tickC, gzipped, zerr, netCloses, cStaled, cAdd>>

\* case <-es.close, after the loop: es.consumers.Init() under the write lock,
\* and the coordinator returns.
controlProcess_closeInit ==
    /\ Alive
    /\ pcCtl = "queues"
    /\ qi > Len(consumers)
    /\ consumers' = ListInit(consumers)
    /\ pcCtl' = "returned"
    /\ qi' = 0
    /\ UNCHANGED <<closeOnTimeout, sink, staledCh, shut, pcServe, pcLoop,
                   in, inClosed, staled, cur, closes, written, nSend, nClose, panics, crash,
                   nPub, published, regAt, full, wfail, exitVia, atClose,
                   hdr, adds, removes, elapsed, tickC, gzipped, zerr, netCloses, cStaled, cAdd>>

\* case <-es.close: the receive, which is the step in which Close's send
\* completes, and the steps that follow it.
controlProcess_close ==
    \/ Close /\ pcCtl' = "closing"
    \/ controlProcess_closeChan
    \/ controlProcess_closeQueue
    \/ controlProcess_closeInit

\* case c := <-es.add, the receive: es.add is unbuffered, so this is the step
\* in which ServeHTTP's send completes and ServeHTTP returns; the coordinator
\* is in the case, in front of the write lock, and c is not in the list yet.
controlProcess_add(c) ==
    /\ Alive
    /\ pcCtl = "select"
    /\ pcServe[c] = "add"
    /\ pcServe' = [pcServe EXCEPT ![c] = "returned"]
    /\ cAdd' = c
    /\ pcCtl' = "push"
    /\ UNCHANGED <<closeOnTimeout, sink, staledCh, shut, consumers, pcLoop,
                   in, inClosed, staled, cur, closes, written, nSend, nClose, panics, crash,
                   nPub, published, regAt, full, wfail, exitVia, atClose,
                   hdr, adds, removes, elapsed, tickC, gzipped, zerr, netCloses, qi, cStaled>>

\* Mutant of controlProcess_addPush: es.consumers.PushFront(c).
controlProcess_addPush_Front ==
    /\ Alive
    /\ pcCtl = "push"
    /\ consumers' = <<cAdd>> \o consumers
    /\ regAt' = [regAt EXCEPT ![cAdd] = nPub]
    /\ adds' = adds + 1
    /\ pcCtl' = "select"
    /\ cAdd' = "none"
    /\ UNCHANGED <<closeOnTimeout, sink, staledCh, shut, pcServe, pcLoop,
                   in, inClosed, staled, cur, closes, written, nSend, nClose, panics, crash,
                   nPub, published, full, wfail, exitVia, atClose,
                   hdr, removes, elapsed, tickC, gzipped, zerr, netCloses, qi, cStaled>>

\* case c := <-es.add, the body: es.consumers.PushBack(c) under the write
\* lock, and back to the select.
controlProcess_addPush ==
    /\ Alive
    /\ pcCtl = "push"
    /\ consumers' = Append(consumers, cAdd)
    /\ regAt' = [regAt EXCEPT ![cAdd] = nPub]
    /\ adds' = adds + 1
    /\ pcCtl' = "select"
    /\ cAdd' = "none"
    /\ UNCHANGED <<closeOnTimeout, sink, staledCh, shut, pcServe, pcLoop,
                   in, inClosed, staled, cur, closes, written, nSend, nClose, panics, crash,
                   nPub, published, full, wfail, exitVia, atClose,
                   hdr, removes, elapsed, tickC, gzipped, zerr, netCloses, qi, cStaled>>

\* Mutant of RemoveAll: the list is cut at the first element equal to c, which
\* goes with everything behind it.
RemoveFrom(l, c) ==
    IF \E i \in DOMAIN l : l[i] = c
    THEN SubSeq(l, 1, Min({i \in DOMAIN l : l[i] = c}) - 1)
    ELSE l

\* Mutant of RemoveAll: when no element equals c, the front element is removed.
RemoveOrFront(l, c) ==
    IF \E i \in DOMAIN l : l[i] = c
    THEN SelectSeq(l, LAMBDA x : x # c)
    ELSE IF l = <<>> THEN l ELSE Tail(l)

\* The list without the elements equal to c (toRemoveEls, then Remove each).
RemoveAll(l, c) == SelectSeq(l, LAMBDA x : x # c)

\* case c := <-es.staled, the receive: the report leaves the one-slot buffer
\* and the coordinator is in the case, in front of its scan of the list.
controlProcess_staled ==
    /\ Alive
    /\ pcCtl = "select"
    /\ staledCh # <<>>
    /\ cStaled' = Head(staledCh)
    /\ staledCh' = Tail(staledCh)
    /\ pcCtl' = "remove"
    /\ UNCHANGED <<closeOnTimeout, sink, shut, consumers, pcServe, pcLoop, crash, inClosed,
                   in, staled, cur, closes, written, nSend, nClose, panics,
                   nPub, published, regAt, full, wfail, exitVia, atClose,
                   hdr, adds, removes, elapsed, tickC, gzipped, zerr, netCloses, qi, cAdd>>

\* case c := <-es.staled, the scan under the read lock and the removal under
\* the write lock: every list element equal to c is removed. The list is
\* written by the coordinator alone, so the elements the scan collected are
\* the ones the list holds when the write lock is taken.
controlProcess_staledRemove ==
    /\ Alive
    /\ pcCtl = "remove"
    /\ consumers' = RemoveAll(consumers, cStaled)
    /\ removes' = IF cStaled \in Range(consumers) THEN removes + 1 ELSE removes
    /\ pcCtl' = "closeIn"
    /\ UNCHANGED <<closeOnTimeout, sink, staledCh, shut, pcServe, pcLoop, crash, inClosed,
                   in, staled, cur, closes, written, nSend, nClose, panics,
                   nPub, published, regAt, full, wfail, exitVia, atClose,
                   hdr, adds, elapsed, tickC, gzipped, zerr, netCloses, qi, cStaled, cAdd>>

\* Mutant of controlProcess_staledClose: the queue of the removed consumer is
\* left open.
controlProcess_staledClose_Skipped ==
    /\ Alive
    /\ pcCtl = "closeIn"
    /\ pcCtl' = "select"
    /\ cStaled' = "none"
    /\ UNCHANGED <<closeOnTimeout, sink, staledCh, shut, consumers, pcServe, pcLoop, crash,
                   inClosed, in, staled, cur, closes, written, nSend, nClose, panics,
                   nPub, published, regAt, full, wfail, exitVia, atClose,
                   hdr, adds, removes, elapsed, tickC, gzipped, zerr, netCloses, qi, cAdd>>

\* case c := <-es.staled, close(c.in), outside any lock, and back to the
\* select; a close of a closed queue panics.
controlProcess_staledClose ==
    /\ Alive
    /\ pcCtl = "closeIn"
    /\ inClosed' = [inClosed EXCEPT ![cStaled] = TRUE]
    /\ crash' = IF inClosed[cStaled] THEN "close of closed channel" ELSE crash
    /\ pcCtl' = IF inClosed[cStaled] THEN "panicked" ELSE "select"
    /\ cStaled' = "none"
    /\ UNCHANGED <<closeOnTimeout, sink, staledCh, shut, consumers, pcServe, pcLoop,
                   in, staled, cur, closes, written, nSend, nClose, panics,
                   nPub, published, regAt, full, wfail, exitVia, atClose,
                   hdr, adds, removes, elapsed, tickC, gzipped, zerr, netCloses, qi, cAdd>>

\* ------------------------------------------------- the delivery goroutine

\* The results of consumer.conn.Write: nil, a net.Error whose Timeout() is
\* true, or any other error.
WriteResults == {"ok", "timeout", "error"}

\* !ok || !netErr.Timeout() || consumer.es.closeOnTimeout
Fatal(res) == res = "error" \/ closeOnTimeout

\* The results consumer.conn.Write can have: through a gzipConn whose
\* gzip.Writer has kept an error, the write returns that error again without
\* touching the connection; otherwise any result of WriteResults.
gzipConn_Write(c) ==
    IF gzipped[c] /\ zerr[c] # "none" THEN {zerr[c]} ELSE WriteResults

\* The error c's gzip.Writer holds after a write with result res: the writer
\* keeps the first error a write or flush returned.
Kept(c, res) ==
    IF gzipped[c] /\ zerr[c] = "none" /\ res # "ok" THEN res ELSE zerr[c]

\* consumer.conn.Close(), with z the error the gzip.Writer holds. On a plain
\* connection it is net.Conn.Close. gzipConn.Close first closes the
\* gzip.Writer, which returns the error it holds or, holding none, writes its
\* trailer to the connection, which may fail; when that close returns an
\* error, gzipConn.Close returns it and the network connection is not closed.
conn_Close(c, z) ==
    \E failed \in IF ~gzipped[c] THEN {FALSE} ELSE IF z # "none" THEN {TRUE} ELSE BOOLEAN :
        netCloses' = [netCloses EXCEPT ![c] = IF failed THEN @ ELSE @ + 1]

\* case message, open := <-consumer.in with a buffered message: it is dequeued
\* and the write deadline set.
loop_recv(c) ==
    /\ Alive
    /\ pcLoop[c] = "select"
    /\ in[c] # <<>>
    /\ cur' = [cur EXCEPT ![c] = Head(in[c])]
    /\ in' = [in EXCEPT ![c] = Tail(in[c])]
    /\ pcLoop' = [pcLoop EXCEPT ![c] = "write"]
    /\ UNCHANGED <<closeOnTimeout, sink, staledCh, shut, consumers, pcCtl, pcServe,
                   inClosed, staled, closes, written, nSend, nClose, panics, crash,
                   nPub, published, regAt, full, wfail, exitVia, atClose,
                   hdr, adds, removes, elapsed, tickC, gzipped, zerr, netCloses, qi, cStaled, cAdd>>

\* Mutant of loop_closed: the loop leaves as soon as the queue is closed,
\* whatever the queue still holds.
loop_closed_Eager(c) ==
    /\ Alive
    /\ pcLoop[c] = "select"
    /\ inClosed[c]
    /\ closes' = [closes EXCEPT ![c] = @ + 1]
    /\ conn_Close(c, zerr[c])
    /\ pcLoop' = [pcLoop EXCEPT ![c] = "done"]
    /\ exitVia' = [exitVia EXCEPT ![c] = "closed"]
    /\ UNCHANGED <<closeOnTimeout, sink, staledCh, shut, consumers, pcCtl, pcServe,
                   in, inClosed, staled, cur, written, nSend, nClose, panics, crash,
                   nPub, published, regAt, full, wfail, atClose,
                   hdr, adds, removes, elapsed, tickC, gzipped, zerr, qi, cStaled, cAdd>>

\* case message, open := <-consumer.in with the queue closed and drained:
\* consumer.conn.Close(); return.
loop_closed(c) ==
    /\ Alive
    /\ pcLoop[c] = "select"
    /\ in[c] = <<>>
    /\ inClosed[c]
    /\ closes' = [closes EXCEPT ![c] = @ + 1]
    /\ conn_Close(c, zerr[c])
    /\ pcLoop' = [pcLoop EXCEPT ![c] = "done"]
    /\ exitVia' = [exitVia EXCEPT ![c] = "closed"]
    /\ UNCHANGED <<closeOnTimeout, sink, staledCh, shut, consumers, pcCtl, pcServe,
                   in, inClosed, staled, cur, written, nSend, nClose, panics, crash,
                   nPub, published, regAt, full, wfail, atClose,
                   hdr, adds, removes, elapsed, tickC, gzipped, zerr, qi, cStaled, cAdd>>

\* idleTimer.Reset(es.idleTimeout) on a timer that was neither stopped nor
\* drained: the timer is armed anew, and a value that an expiry has already sent
\* to idleTimer.C stays buffered there when the build's timer channels are
\* buffered (Go before 1.23), and is discarded when they are not.
idleTimer_Reset(c) ==
    /\ elapsed' = [elapsed EXCEPT ![c] = 0]
    /\ \E kept \in {b \in BOOLEAN : b => tickC[c]} : tickC' = [tickC EXCEPT ![c] = kept]

\* Mutant of loop_write: the return of the fatal branch is missing, so after
\* the flag and the close the loop goes back to its select.
loop_write_KeepsGoing(c, res) ==
    /\ Alive
    /\ pcLoop[c] = "write"
    /\ res \in gzipConn_Write(c)
    /\ cur' = [cur EXCEPT ![c] = NoMsg]
    /\ written' = [written EXCEPT ![c] = IF res = "ok" THEN Append(@, cur[c]) ELSE @]
    /\ wfail' = [wfail EXCEPT ![c] = @ \/ res # "ok"]
    /\ zerr' = [zerr EXCEPT ![c] = Kept(c, res)]
    /\ pcLoop' = [pcLoop EXCEPT ![c] = "select"]
    /\ IF res # "ok" /\ Fatal(res)
       THEN /\ staled' = [staled EXCEPT ![c] = TRUE]
            /\ closes' = [closes EXCEPT ![c] = @ + 1]
            /\ conn_Close(c, Kept(c, res))
            /\ UNCHANGED <<exitVia, elapsed, tickC>>
       ELSE /\ elapsed' = [elapsed EXCEPT ![c] = 0]
            /\ UNCHANGED <<staled, closes, exitVia, tickC, netCloses>>
    /\ UNCHANGED <<closeOnTimeout, sink, staledCh, shut, consumers, pcCtl, pcServe,
                   in, inClosed, nSend, nClose, panics, crash,
                   nPub, published, regAt, full, atClose,
                   hdr, adds, removes, gzipped, qi, cStaled, cAdd>>

\* consumer.conn.Write(message) and what follows it: on nil or a tolerated
\* timeout the idle timer is reset and the loop goes on; on a fatal error the
\* flag is set and the connection closed, and the loop goes to report itself.
loop_write(c, res) ==
    /\ Alive
    /\ pcLoop[c] = "write"
    /\ res \in gzipConn_Write(c)
    /\ cur' = [cur EXCEPT ![c] = NoMsg]
    /\ written' = [written EXCEPT ![c] = IF res = "ok" THEN Append(@, cur[c]) ELSE @]
    /\ wfail' = [wfail EXCEPT ![c] = @ \/ res # "ok"]
    /\ zerr' = [zerr EXCEPT ![c] = Kept(c, res)]
    /\ IF res # "ok" /\ Fatal(res)
       THEN /\ staled' = [staled EXCEPT ![c] = TRUE]
            /\ closes' = [closes EXCEPT ![c] = @ + 1]
            /\ conn_Close(c, Kept(c, res))
            /\ pcLoop' = [pcLoop EXCEPT ![c] = "report"]
            /\ exitVia' = [exitVia EXCEPT ![c] = "error"]
            /\ UNCHANGED <<elapsed, tickC>>
       ELSE /\ pcLoop' = [pcLoop EXCEPT ![c] = "select"]
            /\ idleTimer_Reset(c)
            /\ UNCHANGED <<staled, closes, exitVia, netCloses>>
    /\ UNCHANGED <<closeOnTimeout, sink, staledCh, shut, consumers, pcCtl, pcServe,
                   in, inClosed, nSend, nClose, panics, crash,
                   nPub, published, regAt, full, atClose,
                   hdr, adds, removes, gzipped, qi, cStaled, cAdd>>

\* case <-idleTimer.C: the receive takes the value out of idleTimer.C, then
\* consumer.conn.Close(), and the loop goes to report itself.
loop_idle(c) ==
    /\ Alive
    /\ pcLoop[c] = "select"
    /\ tickC' = [tickC EXCEPT ![c] = FALSE]
    /\ closes' = [closes EXCEPT ![c] = @ + 1]
    /\ conn_Close(c, zerr[c])
    /\ pcLoop' = [pcLoop EXCEPT ![c] = "report"]
    /\ exitVia' = [exitVia EXCEPT ![c] = "idle"]
    /\ UNCHANGED <<closeOnTimeout, sink, staledCh, shut, consumers, pcCtl, pcServe,
                   in, inClosed, staled, cur, written, nSend, nClose, panics, crash,
                   nPub, published, regAt, full, wfail, atClose,
                   hdr, adds, removes, elapsed, gzipped, zerr, qi, cStaled, cAdd>>

\* Mutant of loop_report: the return after the report is missing, so the loop
\* goes back to its select.
loop_report_NoReturn(c) ==
    /\ Alive
    /\ pcLoop[c] = "report"
    /\ IF staledClosed
       THEN /\ crash' = "send on closed channel"
            /\ pcLoop' = [pcLoop EXCEPT ![c] = "panicked"]
            /\ staledCh' = staledCh
       ELSE /\ Len(staledCh) < StaledCap
            /\ staledCh' = Append(staledCh, c)
            /\ pcLoop' = [pcLoop EXCEPT ![c] = "select"]
            /\ crash' = crash
    /\ UNCHANGED <<closeOnTimeout, sink, shut, consumers, pcCtl, pcServe,
                   in, inClosed, staled, cur, closes, written, nSend, nClose, panics,
                   nPub, published, regAt, full, wfail, exitVia, atClose,
                   hdr, adds, removes, elapsed, tickC, gzipped, zerr, netCloses, qi, cStaled, cAdd>>

\* consumer.es.staled <- consumer; return. The send blocks while the buffer is
\* full, and with es.staled closed it panics in the delivery goroutine.
loop_report(c) ==
    /\ Alive
    /\ pcLoop[c] = "report"
    /\ IF staledClosed
       THEN /\ crash' = "send on closed channel"
            /\ pcLoop' = [pcLoop EXCEPT ![c] = "panicked"]
            /\ staledCh' = staledCh
       ELSE /\ Len(staledCh) < StaledCap
            /\ staledCh' = Append(staledCh, c)
            /\ pcLoop' = [pcLoop EXCEPT ![c] = "done"]
            /\ crash' = crash
    /\ UNCHANGED <<closeOnTimeout, sink, shut, consumers, pcCtl, pcServe,
                   in, inClosed, staled, cur, closes, written, nSend, nClose, panics,
                   nPub, published, regAt, full, wfail, exitVia, atClose,
                   hdr, adds, removes, elapsed, tickC, gzipped, zerr, netCloses, qi, cStaled, cAdd>>

\* ---------------------------------------------------------- specification

\* The steps of the coordinator goroutine.
controlProcess ==
    \/ controlProcess_sink
    \/ \E c \in Conns : controlProcess_add(c)
    \/ controlProcess_addPush
    \/ controlProcess_staled
    \/ controlProcess_staledRemove
    \/ controlProcess_staledClose
    \/ controlProcess_close

\* The steps of c's delivery goroutine.
loop(c) ==
    \/ loop_recv(c)
    \/ loop_closed(c)
    \/ \E res \in WriteResults : loop_write(c, res)
    \/ loop_idle(c)
    \/ loop_report(c)

Next ==
    \/ nSend < MaxSend /\ sendMessage(BurstMessage(nSend + 1))
    \/ nClose < MaxClose /\ Close
    \/ \E c \in Conns, k \in NotHijacker..1 : newConsumer(c, FALSE, k)
    \/ \E c \in Conns : ServeHTTP_addClosed(c)
    \/ controlProcess_sink
    \/ \E c \in Conns : controlProcess_add(c)
    \/ controlProcess_addPush
    \/ controlProcess_staled
    \/ controlProcess_staledRemove
    \/ controlProcess_staledClose
    \/ controlProcess_closeChan
    \/ controlProcess_closeQueue
    \/ controlProcess_closeInit
    \/ \E c \in Conns : loop_recv(c)
    \/ \E c \in Conns : loop_closed(c)
    \/ \E c \in Conns, res \in WriteResults : loop_write(c, res)
    \/ \E c \in Conns : loop_idle(c)
    \/ \E c \in Conns : loop_report(c)

\* Every interleaving of the public calls, the coordinator and the delivery loops.
Spec == Init /\ [][Next]_vars

\* The delivery goroutines are scheduled: a delivery loop that can take a step
\* eventually takes one (its queue, its timer and its write deadline all end a
\* wait), and the coordinator, once it has received a shutdown, a registration
\* or a stale report, goes through the case to its end. Nothing is assumed of
\* the callers.
LiveSpec ==
    /\ Spec
    /\ \A c \in Conns : WF_vars(loop(c))
    /\ WF_vars(controlProcess_closeChan \/ controlProcess_closeQueue \/ controlProcess_closeInit)
    /\ WF_vars(controlProcess_addPush \/ controlProcess_staledRemove \/ controlProcess_staledClose)

\* New(nil, ...): DefaultSettings, CloseOnTimeout true.
InitBurst == Init /\ closeOnTimeout = TRUE

\* A burst: more publishes than a queue holds, to consumers whose writes succeed
\* whenever they get to write and whose idle timers do not expire; a delivery
\* loop may stop taking steps at any point (a stuck write).
NextBurst ==
    \/ nSend < MaxBurst /\ sendMessage(BurstMessage(nSend + 1))
    \/ \E c \in Conns : newConsumer(c, FALSE, 0)
    \/ controlProcess_sink
    \/ \E c \in Conns : controlProcess_add(c)
    \/ controlProcess_addPush
    \/ \E c \in Conns : loop_recv(c)
    \/ \E c \in Conns : loop_write(c, "ok")

Burst == InitBurst /\ [][NextBurst]_vars

\* The client that does not read: a conn.Write of its delivery loop has not
\* returned by the end of the burst (the write deadline is further away).
StuckConn == ConnSeq[1]

\* A burst with a stuck client: the same publishes and connections, served
\* concurrently; a write to StuckConn's connection does not return, the writes
\* to the other connections succeed.
NextStuck ==
    \/ nSend < MaxBurst /\ sendMessage(BurstMessage(nSend + 1))
    \/ \E c \in Conns : newConsumer(c, FALSE, 0)
    \/ controlProcess_sink
    \/ \E c \in Conns : controlProcess_add(c)
    \/ controlProcess_addPush
    \/ \E c \in Conns : loop_recv(c)
    \/ \E c \in Conns \ {StuckConn} : loop_write(c, "ok")

Stuck == InitBurst /\ [][NextStuck]_vars

\* The coordinator goroutine is scheduled: a select case of controlProcess that
\* stays ready is eventually taken, and a registration it has received is
\* put into the list. Nothing is assumed of the delivery loops.
LiveStuck == Stuck /\ WF_vars(controlProcess_sink) /\ WF_vars(controlProcess_addPush)

\* ------------------------------------------------------------------ claims

\* The bytes of a sequence of queue entries, concatenated.
Bytes(es) == Flatten([i \in 1..Len(es) |-> es[i].b])

\* The message c's delivery loop holds between its dequeue and its write.
InFlight(c) == IF pcLoop[c] = "write" THEN <<cur[c]>> ELSE <<>>

\* C1: when the coordinator processes a publish, every registry entry whose
\* staled flag is false keeps its queue if it holds QueueCap messages and
\* otherwise gets the encoded message appended, and no error comes of it.
C1_PublishFanOut ==
    [][nPub' = nPub + 1 =>
        /\ \A c \in Range(consumers) :
              ~staled[c] =>
                in'[c] = IF Len(in[c]) >= QueueCap
                         THEN in[c]
                         ELSE Append(in[c], [n |-> nPub + 1, b |-> prepareMessage(Head(sink))])
        /\ crash' = crash
        /\ panics' = panics]_vars

\* C2: what a delivery loop has written is a subsequence of the publishes in
\* the order the coordinator processed them: the publish numbers strictly
\* increase along it, and each entry is the encoding published under its number.
C2_WrittenInPublishOrder ==
    \A c \in Conns :
        /\ \A i, j \in DOMAIN written[c] : i < j => written[c][i].n < written[c][j].n
        /\ \A i \in DOMAIN written[c] :
              /\ written[c][i].n \in 1..nPub
              /\ written[c][i].b = published[written[c][i].n]

C2_Witness ==
    \E c \in Conns :
        /\ Len(written[c]) >= 2
        /\ written[c][1].b # written[c][2].b

\* c is the only connection ServeHTTP has been given.
Only(c) == \A d \in Conns \ {c} : pcServe[d] = "idle"

\* c is registered (it is in the list the publish loop goes through) and has
\* read steadily: no publish found its queue full, no write failed and its
\* idle timer has not fired.
Steady(c) ==
    /\ c \in Range(consumers)
    /\ ~full[c]
    /\ ~wfail[c]
    /\ exitVia[c] # "idle"

\* C3: for a single registered consumer that reads steadily, the bytes written
\* so far, followed by the message in flight and the messages still queued,
\* are the concatenation of the encodings of all the messages published since
\* it was registered, in publish order: once the queue is drained the bytes
\* written are exactly that concatenation. Registered is the moment c enters
\* the list, which is after its ServeHTTP has returned: until then no publish
\* reaches c, and regAt[c] is the number of publishes processed by then.
C3_SteadyConsumerGetsAll ==
    /\ [](\A c \in Conns :
            /\ (Only(c) /\ Steady(c)) =>
                  Bytes(written[c] \o InFlight(c) \o in[c])
                    = Flatten(SubSeq(published, regAt[c] + 1, nPub))
            /\ (Only(c) /\ adds = 0) =>
                  written[c] \o InFlight(c) \o in[c] = <<>>)
    /\ [][\A c \in Conns :
            /\ (c \notin Range(consumers) /\ c \in Range(consumers')) =>
                  regAt'[c] = nPub /\ nPub' = nPub /\ pcServe[c] = "returned"
            /\ (c \in Range(consumers) /\ c \in Range(consumers')) => regAt'[c] = regAt[c]]_vars

C3_Witness ==
    \E c \in Conns :
        /\ Only(c) /\ Steady(c)
        /\ nPub = MaxBurst
        /\ Len(written[c]) = MaxBurst
        /\ Bytes(written[c]) = Flatten(published)

\* The coordinator is in its for loop: at the select, or in the case of a
\* registration or of a stale report.
InLoop == pcCtl \in {"select", "push", "remove", "closeIn"}

\* The coordinator goroutine is running: it is in its loop, and has neither
\* received a shutdown nor panicked.
Running == Alive /\ InLoop

\* Shutdown has been processed: the coordinator has closed its channels and
\* the queues, emptied the registry and returned.
ShutDown == pcCtl = "returned"

\* C4: a message accepted by sendMessage is eventually processed by the
\* coordinator, unless the coordinator stops running, whatever the delivery
\* loops do: a loop that never completes its write and a full queue do not
\* hold the coordinator.
C4_PublishNeverBlocked == (sink # <<>>) ~> (sink = <<>> \/ ~Running)

C4_Witness ==
    \E c, d \in Conns :
        /\ c = StuckConn /\ d # c
        /\ pcLoop[c] = "write"
        /\ Len(in[c]) = QueueCap
        /\ full[c]
        /\ Len(written[d]) > 0
        /\ written[d][Len(written[d])].n = nPub
        /\ nPub = MaxBurst

\* C5: once the coordinator has processed Close the registry is empty, so
\* ConsumersCount returns 0, and the transition is one-way: from the moment it
\* receives from es.close the coordinator never goes back into its loop and
\* processes no further add, publish or stale report, and once it has returned
\* it takes no step at all.
C5_ClosedIsTerminal ==
    /\ [](ShutDown => (consumers = <<>> /\ ConsumersCount = 0))
    /\ [][~InLoop =>
            /\ ~InLoop'
            /\ nPub' = nPub /\ adds' = adds /\ removes' = removes]_vars
    /\ [][ShutDown =>
            /\ ShutDown'
            /\ consumers' = consumers
            /\ sink' = sink
            /\ staledCh' = staledCh
            /\ inClosed' = inClosed]_vars

C5_Witness ==
    /\ pcCtl = "returned"
    /\ Len(atClose) = Cardinality(Conns)
    /\ ConsumersCount = 0
    /\ sink # <<>>
    /\ "sendMessage" \in panics

\* C6: after shutdown is processed, every consumer that was in the registry at
\* that moment eventually has its delivery loop observe the closed queue, close
\* the connection and exit.
C6_ShutdownReleasesEveryLoop ==
    \A c \in Conns :
        (c \in Range(atClose)) ~>
            (exitVia[c] = "closed" /\ closes[c] = 1 /\ pcLoop[c] = "done")

\* The coordinator's own state: its channels, the registry and the queues it closes.
ctlVars == <<sink, staledCh, shut, consumers, pcCtl, inClosed, qi, cStaled, cAdd>>

\* C7: Close is invoked on a consumer's connection at most once, a delivery
\* loop that has left its select for good has invoked it exactly once, and the
\* step that invokes it is never a step of the coordinator.
C7_ConnClosedOnce ==
    /\ [](\A c \in Conns :
            /\ closes[c] <= 1
            /\ pcLoop[c] \in {"report", "done", "panicked"} => closes[c] = 1)
    /\ [][(closes' # closes) => UNCHANGED ctlVars]_vars

C7_Witness ==
    \E c, d \in Conns :
        /\ exitVia[c] = "error" /\ closes[c] = 1 /\ inClosed[c] /\ pcLoop[c] = "done"
        /\ exitVia[d] = "closed" /\ closes[d] = 1 /\ d \in Range(atClose)

\* C8: a publish issued after shutdown has been processed enqueues nothing and
\* does not panic.
C8_PublishAfterShutdown ==
    [][(ShutDown /\ nSend' = nSend + 1) =>
          (in' = in /\ panics' = panics /\ crash' = crash)]_vars

\* C9: a Close called after shutdown has been processed does not panic.
C9_SecondClose ==
    [][(ShutDown /\ nClose' = nClose + 1) => (panics' = panics /\ crash' = crash)]_vars

\* C10: a ServeHTTP that reaches es.add <- cons after shutdown, or is blocked
\* there when shutdown is processed, leaves the registry empty and does not
\* panic.
C10_ServeAfterShutdown ==
    /\ [](ShutDown => consumers = <<>>)
    /\ [][\A c \in Conns :
              (addClosed /\ pcServe[c] = "add" /\ pcServe'[c] # "add") =>
                  (pcServe'[c] = "returned" /\ panics' = panics /\ crash' = crash)]_vars

\* C11: a delivery loop of a consumer the shutdown found in the registry,
\* whose write fails or whose idle timer fires after the coordinator has
\* processed shutdown, ends without a panic: reporting itself stale to the
\* closed coordinator is not a fault.
C11_ShutdownRaceSafe ==
    \A c \in Conns :
        (c \in Range(atClose) /\ exitVia[c] \in {"error", "idle"}) =>
            (pcLoop[c] # "panicked" /\ crash # "send on closed channel")

\* The delivery loop of c has hit a fatal write error or idle expiry and closed
\* its connection.
MarkedStale(c) == exitVia[c] \in {"error", "idle"}

\* C12: once a session is marked stale it is not counted by ConsumersCount
\* (it is not in the registry), and no publish the coordinator processes from
\* then on puts a message into its queue.
C12_StaleNotCountedNotFed ==
    /\ [](\A c \in Conns : MarkedStale(c) => c \notin Range(consumers))
    /\ [][\A c \in Conns : (MarkedStale(c) /\ nPub' = nPub + 1) => in'[c] = in[c]]_vars

\* Sessions that come and go while the event source is in service (Close is
\* not called): connections served concurrently, a ticker that numbers its
\* events, and every outcome of a write and of the idle timer.
NextIdle ==
    \/ nSend < MaxSend /\ sendMessage(BurstMessage(nSend + 1))
    \/ \E c \in Conns : newConsumer(c, FALSE, 0)
    \/ controlProcess_sink
    \/ \E c \in Conns : controlProcess_add(c)
    \/ controlProcess_addPush
    \/ controlProcess_staled
    \/ controlProcess_staledRemove
    \/ controlProcess_staledClose
    \/ \E c \in Conns : loop_recv(c)
    \/ \E c \in Conns, res \in WriteResults : loop_write(c, res)
    \/ \E c \in Conns : loop_idle(c)
    \/ \E c \in Conns : loop_report(c)

Idle == Init /\ [][NextIdle]_vars

\* The delivery goroutines and the coordinator goroutine are scheduled: a
\* stale report that can be sent is eventually sent, and a report buffered in
\* es.staled is eventually received by the coordinator's select, which then
\* goes through the case to its end, as it does through the case of a
\* registration it has received. Nothing is assumed of the callers, of the
\* writes or of the timers.
LiveIdle ==
    /\ Idle
    /\ \A c \in Conns : WF_vars(loop_report(c))
    /\ WF_vars(controlProcess_staled \/ controlProcess_staledRemove \/ controlProcess_staledClose)
    /\ WF_vars(controlProcess_addPush)

\* As LiveIdle, and every goroutine does what it can do: the coordinator's
\* select takes a case that stays ready (a publish in es.sink, a ServeHTTP
\* waiting on es.add), and a delivery loop dequeues a message that is waiting
\* and finishes the write it is in. Nothing is assumed of the callers or of
\* the timers.
LiveServing ==
    /\ LiveIdle
    /\ WF_vars(controlProcess_sink)
    /\ WF_vars(\E c \in Conns : controlProcess_add(c))
    /\ \A c \in Conns : WF_vars(loop_recv(c) \/ \E res \in WriteResults : loop_write(c, res))

\* c is in the registry and the idle timer of its delivery loop has fired,
\* before or after the coordinator put c there.
IdleExpired(c) ==
    /\ exitVia[c] = "idle"
    /\ c \in Range(consumers)

\* C13: while the coordinator is running, a registered session whose idle
\* timer has fired eventually has its connection closed (once) and is out of
\* the registry, so that ConsumersCount counts only the other registered
\* sessions.
C13_IdleSessionRemoved ==
    \A c \in Conns :
        IdleExpired(c) ~>
            \/ ~Running
            \/ /\ c \notin Range(consumers)
               /\ closes[c] = 1
               /\ ConsumersCount <= Cardinality(Conns \ {c})

\* Connections handed to ServeHTTP with either compression decision, with a
\* ResponseWriter that is no Hijacker, a Hijack that fails, a failure at any
\* write of the handshake, or none; publishes delivered to the consumers that
\* made it.
NextHandshake ==
    \/ \E c \in Conns, gz \in BOOLEAN, k \in NotHijacker..Len(HandshakeWrites(TRUE)) : newConsumer(c, gz, k)
    \/ \E c \in Conns : controlProcess_add(c)
    \/ controlProcess_addPush
    \/ nSend < MaxSend /\ \E m \in Messages : sendMessage(m)
    \/ controlProcess_sink
    \/ \E c \in Conns : loop_recv(c)
    \/ \E c \in Conns : loop_write(c, "ok")

Handshake == Init /\ [][NextHandshake]_vars

\* The state of one consumer and of its connection.
Session(c) == <<pcLoop[c], in[c], inClosed[c], staled[c], cur[c], closes[c], written[c], hdr[c]>>

\* A write of c's handshake failed: newConsumer got the connection from Hijack
\* and returned the error of a write.
HandshakeFailed(c) == pcServe[c] = "failed"

\* The step is newConsumer for c with its k-th handshake write failing.
HandshakeWriteFails(c) ==
    \E gz \in BOOLEAN : \E k \in 1..Len(HandshakeWrites(gz)) : newConsumer(c, gz, k)

\* C14: when a write of the handshake fails, whichever write it is, the
\* connection is closed (once), ServeHTTP has returned with the error, no
\* delivery loop exists and the consumer never reaches the coordinator; the
\* step leaves the registry, the coordinator's channels and every other
\* consumer as they were.
C14_HandshakeFailure ==
    /\ [](\A c \in Conns :
            HandshakeFailed(c) =>
                /\ \A gz \in BOOLEAN : hdr[c] # HandshakeWrites(gz)
                /\ closes[c] = 1
                /\ pcLoop[c] = "none"
                /\ c \notin Range(consumers) \cup Range(staledCh)
                /\ in[c] = <<>> /\ written[c] = <<>>)
    /\ [][\A c \in Conns :
            /\ HandshakeWriteFails(c) =>
                  /\ HandshakeFailed(c)'
                  /\ closes'[c] = closes[c] + 1
                  /\ pcLoop'[c] = "none"
                  /\ UNCHANGED <<ctlVars, adds, removes, nPub, crash, panics>>
                  /\ \A d \in Conns \ {c} : Session(d)' = Session(d) /\ pcServe'[d] = pcServe[d]
            /\ HandshakeFailed(c) => HandshakeFailed(c)']_vars

C14_Witness ==
    \E c, d \in Conns :
        /\ HandshakeFailed(c)
        /\ Len(hdr[c]) = Len(HandshakeWrites(TRUE)) - 1
        /\ closes[c] = 1
        /\ consumers = <<d>>
        /\ written[d] # <<>>

\* The registrations the coordinator has received from es.add: the ServeHTTP
\* calls whose send has completed.
Received == Cardinality({c \in Conns : pcServe[c] = "returned"})

\* C15: before shutdown, what ConsumersCount returns at any moment is the
\* number of adds the coordinator has processed minus the number of registered
\* consumers it has removed on a stale report: it is never negative and never
\* more than the adds, and it moves only by whole operations (one up with an
\* add, one down with a removal). An add is processed when PushBack is done:
\* a registration received and not yet pushed (the handler has returned, the
\* coordinator is in front of the write lock) is not counted, and every other
\* registration received is.
C15_CountIsSerialized ==
    /\ [](~ShutDown =>
            /\ ConsumersCount = adds - removes
            /\ ConsumersCount >= 0
            /\ ConsumersCount <= adds
            /\ adds = IF pcCtl = "push" THEN Received - 1 ELSE Received
            /\ pcCtl = "push" => cAdd \notin Range(consumers) /\ pcServe[cAdd] = "returned")
    /\ [][~ShutDown' =>
            \/ ConsumersCount' = ConsumersCount /\ adds' = adds /\ removes' = removes
            \/ ConsumersCount' = ConsumersCount + 1 /\ adds' = adds + 1 /\ removes' = removes
            \/ ConsumersCount' = ConsumersCount - 1 /\ adds' = adds /\ removes' = removes + 1]_vars

\* A registered consumer has been removed on its stale report, and the
\* registration of another has been received and is not pushed yet: its
\* handler has returned and ConsumersCount does not count it.
C15_Witness ==
    /\ ~ShutDown
    /\ pcCtl = "push"
    /\ Received = Cardinality(Conns)
    /\ adds = Cardinality(Conns) - 1
    /\ removes = 1
    /\ ConsumersCount = Cardinality(Conns) - 2
    /\ \E c \in Conns \ {cAdd} : c \notin Range(consumers) /\ inClosed[c]

\* The coordinator takes a step of its case for a stale report: the receive
\* from es.staled, the removal, or close(c.in).
StaleStep ==
    \/ pcCtl = "select" /\ pcCtl' = "remove"
    \/ pcCtl = "remove" /\ pcCtl' = "closeIn"
    \/ pcCtl = "closeIn" /\ pcCtl' # "closeIn"

\* The consumer whose report that step is about.
StaleCons == IF pcCtl = "select" THEN Head(staledCh) ELSE cStaled

\* d is registered and nothing has failed on it: its loop is running, its
\* queue is open and it has not been marked stale.
Healthy(d) ==
    /\ d \in Range(consumers)
    /\ pcLoop[d] \in {"select", "write"}
    /\ ~inClosed[d]
    /\ ~staled[d]

\* C16: a failure of one session stays with that session. The step in which
\* c's write fails or its idle timer fires changes no other session and not
\* the registry; the step in which the coordinator processes c's stale report
\* leaves every other consumer's registry membership, queue and connection as
\* they were; and every publish processed reaches each healthy registered
\* consumer (appended, or dropped only because that consumer's own queue is
\* full), whatever has failed on the others before.
C16_FailureIsLocal ==
    [][/\ \A c \in Conns :
            (exitVia'[c] \in {"error", "idle"} /\ exitVia[c] = "none") =>
                /\ consumers' = consumers
                /\ \A d \in Conns \ {c} : Session(d)' = Session(d)
       /\ StaleStep =>
            \A d \in Conns \ {StaleCons} :
                /\ (d \in Range(consumers')) = (d \in Range(consumers))
                /\ Session(d)' = Session(d)
       /\ nPub' = nPub + 1 =>
            \A d \in Conns :
                Healthy(d) =>
                    in'[d] = IF Len(in[d]) >= QueueCap
                             THEN in[d]
                             ELSE Append(in[d], [n |-> nPub + 1, b |-> prepareMessage(Head(sink))])]_vars

\* The i-th write on a connection is the blank line that ends the header
\* block: a lone "\r\n" that does not end an extra header line.
BlankAt(h, i) ==
    /\ h[i] = CRLF
    /\ i > 1 => h[i - 1] \notin Range(customHeadersFunc)

\* The position of the extra header line x among the writes, 0 if it is not there.
PosOf(h, x) == IF x \in Range(h) THEN CHOOSE i \in DOMAIN h : h[i] = x ELSE 0

\* The header block: the status line with Content-Type first, all the extra
\* header lines in the decorator's order, each ended by "\r\n", and the blank
\* line as the last write.
HeaderComplete(h) ==
    /\ h # <<>>
    /\ h[1] = StatusWrite
    /\ BlankAt(h, Len(h))
    /\ \A j \in DOMAIN customHeadersFunc :
          /\ PosOf(h, customHeadersFunc[j]) \in 2..(Len(h) - 2)
          /\ h[PosOf(h, customHeadersFunc[j]) + 1] = CRLF
          /\ \A l \in DOMAIN customHeadersFunc :
                j < l => PosOf(h, customHeadersFunc[j]) < PosOf(h, customHeadersFunc[l])

\* C17: on a connection the status line with Content-Type comes first, the
\* extra header lines follow in the decorator's order, the blank line comes
\* after them and nothing of the header after the blank line; a delivery loop
\* exists, and a message frame is written, only on a connection whose header
\* block is complete, and no header write follows the start of the loop.
C17_HeaderThenFrames ==
    /\ [](\A c \in Conns :
            /\ hdr[c] # <<>> => hdr[c][1] = StatusWrite
            /\ \A i \in DOMAIN hdr[c] : BlankAt(hdr[c], i) => i = Len(hdr[c])
            /\ \A j, l \in DOMAIN customHeadersFunc :
                  (j < l /\ PosOf(hdr[c], customHeadersFunc[l]) > 0) =>
                      PosOf(hdr[c], customHeadersFunc[j]) \in 1..(PosOf(hdr[c], customHeadersFunc[l]) - 1)
            /\ (pcLoop[c] # "none" \/ written[c] # <<>> \/ cur[c] # NoMsg) => HeaderComplete(hdr[c]))
    /\ [][\A c \in Conns : hdr'[c] # hdr[c] => (pcLoop[c] = "none" /\ written[c] = <<>>)]_vars

C17_Witness ==
    \E c \in Conns :
        /\ HeaderComplete(hdr[c])
        /\ GzipWrite \in Range(hdr[c])
        /\ Len(written[c]) = MaxSend

\* ----------------------------------------------- the encoding, on its own

\* The characters of the strings handed to SendEventMessage: an ordinary
\* character and the newline.
Chars == {"1", NL}

\* The strings of at most n characters.
Strings(n) == UNION {[1..l -> Chars] : l \in 0..n}

\* The event messages of at most MaxLen characters per field.
EventMessages ==
    {EventMessage(data, event, id) :
        data \in Strings(MaxLen), event \in Strings(MaxLen), id \in Strings(MaxLen)}

\* New(nil, nil) followed by one SendEventMessage(data, event, id): the
\* message is buffered in es.sink.
InitEncode ==
    /\ closeOnTimeout = TRUE
    /\ sink \in {<<m>> : m \in EventMessages}
    /\ nSend = 1
    /\ staledCh = <<>>
    /\ shut = 0
    /\ consumers = <<>>
    /\ pcCtl = "select"
    /\ pcServe = [c \in Conns |-> "idle"]
    /\ pcLoop = [c \in Conns |-> "none"]
    /\ in = [c \in Conns |-> <<>>]
    /\ inClosed = [c \in Conns |-> FALSE]
    /\ staled = [c \in Conns |-> FALSE]
    /\ cur = [c \in Conns |-> NoMsg]
    /\ closes = [c \in Conns |-> 0]
    /\ written = [c \in Conns |-> <<>>]
    /\ nClose = 0
    /\ panics = {}
    /\ crash = "none"
    /\ nPub = 0
    /\ published = <<>>
    /\ regAt = [c \in Conns |-> 0]
    /\ full = [c \in Conns |-> FALSE]
    /\ wfail = [c \in Conns |-> FALSE]
    /\ exitVia = [c \in Conns |-> "none"]
    /\ atClose = <<>>
    /\ hdr = [c \in Conns |-> <<>>]
    /\ adds = 0
    /\ removes = 0
    /\ elapsed = [c \in Conns |-> 0]
    /\ tickC = [c \in Conns |-> FALSE]
    /\ gzipped = [c \in Conns |-> FALSE]
    /\ zerr = [c \in Conns |-> "none"]
    /\ netCloses = [c \in Conns |-> 0]
    /\ qi = 0
    /\ cStaled = "none"
    /\ cAdd = "none"

\* The coordinator takes the message from es.sink and encodes it.
NextEncode == controlProcess_sink

Encode == InitEncode /\ [][NextEncode]_vars

\* The positions of the newlines of a frame.
LineEnds(s) == {i \in DOMAIN s : s[i] = NL}

RECURSIVE LinesFrom(_, _, _)
\* The newline-terminated lines of s from position i on, each without its
\* newline, where b is the position at which the line being read began.
LinesFrom(s, b, i) ==
    IF i > Len(s) THEN <<>>
    ELSE IF s[i] = NL THEN <<SubSeq(s, b, i - 1)>> \o LinesFrom(s, i + 1, i + 1)
         ELSE LinesFrom(s, b, i + 1)

\* The newline-terminated lines of a frame, in order.
FrameLines(s) == LinesFrom(s, 1, 1)

HasPrefix(l, p) == Len(l) >= Len(p) /\ SubSeq(l, 1, Len(p)) = p

\* s with its newline characters left out.
Stripped(s) == SelectSeq(s, LAMBDA ch : ch # NL)

\* The positions of the lines ls that begin with p.
LinesWith(ls, p) == {k \in DOMAIN ls : HasPrefix(ls[k], p)}

\* The frame the coordinator makes of the message it takes from es.sink in this step.
Encoded == published'[Len(published')]

\* The field f of a message is encoded among the lines ls as the one line
\* "<p><f without its newlines>" when it is not empty, and as no line when it is.
OneLineField(ls, p, f) ==
    IF f = <<>>
    THEN LinesWith(ls, p) = {}
    ELSE /\ Cardinality(LinesWith(ls, p)) = 1
         /\ \A k \in LinesWith(ls, p) : ls[k] = p \o Stripped(f)

\* C18: a non-empty id is encoded as exactly one line "id: <id without its
\* newlines>", a non-empty event as exactly one line "event: <event without
\* its newlines>", and an empty id or event as no line.
C18_IdAndEventLines ==
    [][nPub' = nPub + 1 =>
          \A ls \in {FrameLines(Encoded)} :
              /\ OneLineField(ls, IdPrefix, Head(sink).id)
              /\ OneLineField(ls, EventPrefix, Head(sink).event)]_vars

C18_Witness ==
    /\ nPub = 1
    /\ published[1] = <<"i", "d", ":", " ", "1", "1", NL, "e", "v", "e", "n", "t", ":", " ", NL, NL>>

RECURSIVE JoinLines(_)
\* The segments put together again with a newline between neighbours.
JoinLines(ss) ==
    IF Len(ss) = 1 THEN ss[1] ELSE ss[1] \o <<NL>> \o JoinLines(Tail(ss))

RECURSIVE Payloads(_)
\* The lines among ls that begin with "data: ", in order, without that prefix.
Payloads(ls) ==
    IF ls = <<>> THEN <<>>
    ELSE IF HasPrefix(Head(ls), DataPrefix)
         THEN <<SubSeq(Head(ls), Len(DataPrefix) + 1, Len(Head(ls)))>> \o Payloads(Tail(ls))
         ELSE Payloads(Tail(ls))

\* The payloads ps are the segments of data between its newlines, in order.
SegmentsOf(ps, data) ==
    IF data = <<>>
    THEN ps = <<>>
    ELSE /\ Len(ps) = Cardinality(LineEnds(data)) + 1
         /\ \A k \in DOMAIN ps : LineEnds(ps[k]) = {}
         /\ JoinLines(ps) = data
         /\ data[Len(data)] = NL => ps[Len(ps)] = <<>>

\* C19: non-empty data is encoded as one "data: <segment>" line per segment
\* between its newlines, in order: k newlines give k + 1 lines, which put
\* together again with newlines are the data, and after a trailing newline the
\* last line is an empty "data: "; empty data gives no data line.
C19_DataLines ==
    [][nPub' = nPub + 1 =>
          \A ps \in {Payloads(FrameLines(Encoded))} : SegmentsOf(ps, Head(sink).data)]_vars

C19_Witness ==
    /\ nPub = 1
    /\ published[1] = <<"d", "a", "t", "a", ":", " ", "1", NL,
                         "d", "a", "t", "a", ":", " ", NL,
                         "d", "a", "t", "a", ":", " ", NL, NL>>

\* 1 for an id line, 2 for an event line, 3 for a data line, 4 for a blank
\* line, 0 for anything else.
Kind(l) ==
    CASE HasPrefix(l, IdPrefix) -> 1
      [] HasPrefix(l, EventPrefix) -> 2
      [] HasPrefix(l, DataPrefix) -> 3
      [] l = <<>> -> 4
      [] OTHER -> 0

\* The kinds ks of the lines of the frame of message m are in the order id,
\* event, data, blank, each field there exactly when it is not empty, and the
\* blank line there always, last and alone.
InFieldOrder(ks, m) ==
    /\ \A k \in DOMAIN ks : ks[k] # 0
    /\ \A i, j \in DOMAIN ks : i < j => ks[i] <= ks[j]
    /\ {k \in DOMAIN ks : ks[k] = 4} = {Len(ks)}
    /\ Cardinality({k \in DOMAIN ks : ks[k] = 1}) = IF m.id # <<>> THEN 1 ELSE 0
    /\ Cardinality({k \in DOMAIN ks : ks[k] = 2}) = IF m.event # <<>> THEN 1 ELSE 0
    /\ (\E k \in DOMAIN ks : ks[k] = 3) = (m.data # <<>>)

RECURSIVE Kinds(_)
\* The kinds of the lines ls, in order.
Kinds(ls) == IF ls = <<>> THEN <<>> ELSE <<Kind(Head(ls))>> \o Kinds(Tail(ls))

\* C20: a frame is made of newline-terminated lines only, which are, in this
\* order, the id line, the event line, the data lines and one blank line: the
\* blank line is there whichever fields are, it is the last line and the only
\* blank one; a message with all three fields empty is the single newline.
C20_FieldOrderAndTerminator ==
    [][nPub' = nPub + 1 =>
          /\ Encoded[Len(Encoded)] = NL
          /\ \A ks \in {Kinds(FrameLines(Encoded))} : InFieldOrder(ks, Head(sink))
          /\ (Head(sink).id = <<>> /\ Head(sink).event = <<>> /\ Head(sink).data = <<>>)
                => Encoded = <<NL>>]_vars

C20_Witness ==
    /\ nPub = 1
    /\ published[1] = <<"i", "d", ":", " ", "1", NL, "e", "v", "e", "n", "t", ":", " ", "1", NL,
                         "d", "a", "t", "a", ":", " ", "1", NL,
                         "d", "a", "t", "a", ":", " ", "1", NL, NL>>

\* The durations handed to SendRetryMessage: around every whole number of
\* milliseconds up to MaxMs either side of zero, and around one and two seconds.
Durations ==
    {q * Millisecond + r :
        q \in (-MaxMs..MaxMs) \cup {1000, 2000},
        r \in {-999999, -500000, -1, 0, 1, 500000, 999999}}

\* New(nil, nil) followed by one SendRetryMessage(d): the message is buffered
\* in es.sink.
InitRetry ==
    /\ closeOnTimeout = TRUE
    /\ sink \in {<<RetryMessage(d)>> : d \in Durations}
    /\ nSend = 1
    /\ staledCh = <<>>
    /\ shut = 0
    /\ consumers = <<>>
    /\ pcCtl = "select"
    /\ pcServe = [c \in Conns |-> "idle"]
    /\ pcLoop = [c \in Conns |-> "none"]
    /\ in = [c \in Conns |-> <<>>]
    /\ inClosed = [c \in Conns |-> FALSE]
    /\ staled = [c \in Conns |-> FALSE]
    /\ cur = [c \in Conns |-> NoMsg]
    /\ closes = [c \in Conns |-> 0]
    /\ written = [c \in Conns |-> <<>>]
    /\ nClose = 0
    /\ panics = {}
    /\ crash = "none"
    /\ nPub = 0
    /\ published = <<>>
    /\ regAt = [c \in Conns |-> 0]
    /\ full = [c \in Conns |-> FALSE]
    /\ wfail = [c \in Conns |-> FALSE]
    /\ exitVia = [c \in Conns |-> "none"]
    /\ atClose = <<>>
    /\ hdr = [c \in Conns |-> <<>>]
    /\ adds = 0
    /\ removes = 0
    /\ elapsed = [c \in Conns |-> 0]
    /\ tickC = [c \in Conns |-> FALSE]
    /\ gzipped = [c \in Conns |-> FALSE]
    /\ zerr = [c \in Conns |-> "none"]
    /\ netCloses = [c \in Conns |-> 0]
    /\ qi = 0
    /\ cStaled = "none"
    /\ cAdd = "none"

EncodeRetry == InitRetry /\ [][NextEncode]_vars

\* The value of a decimal digit character, 10 for any other character.
DigitValue(ch) ==
    CASE ch = "0" -> 0 [] ch = "1" -> 1 [] ch = "2" -> 2 [] ch = "3" -> 3 [] ch = "4" -> 4
      [] ch = "5" -> 5 [] ch = "6" -> 6 [] ch = "7" -> 7 [] ch = "8" -> 8 [] ch = "9" -> 9
      [] OTHER -> 10

RECURSIVE ValueOf(_, _)
\* The number the first i characters of the digit string ds write.
ValueOf(ds, i) == IF i = 0 THEN 0 ELSE 10 * ValueOf(ds, i - 1) + DigitValue(ds[i])

\* ds is a decimal numeral without sign: digits only, no leading zero.
IsNumeral(ds) ==
    /\ ds # <<>>
    /\ \A i \in DOMAIN ds : DigitValue(ds[i]) < 10
    /\ Len(ds) > 1 => ds[1] # "0"

\* txt writes the integer n in decimal, with a minus sign when n is negative.
Writes(txt, n) ==
    IF n < 0
    THEN /\ Len(txt) > 1 /\ txt[1] = "-"
         /\ \A ds \in {Tail(txt)} : IsNumeral(ds) /\ ValueOf(ds, Len(ds)) = -n
    ELSE IsNumeral(txt) /\ ValueOf(txt, Len(txt)) = n

\* n is d in whole milliseconds, the fraction cut off: n milliseconds are no
\* further from zero than d, on the same side, and less than one millisecond
\* short of it.
WholeMilliseconds(n, d) ==
    IF d >= 0
    THEN n >= 0 /\ n * Millisecond <= d /\ d < (n + 1) * Millisecond
    ELSE n <= 0 /\ n * Millisecond >= d /\ d > (n - 1) * Millisecond

\* C21: SendRetryMessage(d) is encoded as "retry: <n>", a newline and a blank
\* line, where the decimal numeral n is d in whole milliseconds, the fraction
\* truncated.
C21_RetryInMilliseconds ==
    [][nPub' = nPub + 1 =>
          \A enc \in {Encoded}, d \in {Head(sink).retry} :
              /\ HasPrefix(enc, RetryPrefix)
              /\ Len(enc) >= Len(RetryPrefix) + 3
              /\ SubSeq(enc, Len(enc) - 1, Len(enc)) = <<NL, NL>>
              /\ \A txt \in {SubSeq(enc, Len(RetryPrefix) + 1, Len(enc) - 2)} :
                    \E n \in -(2 * 1000 + 1)..(2 * 1000 + 1) :
                        Writes(txt, n) /\ WholeMilliseconds(n, d)]_vars

C21_Witness ==
    /\ nPub = 1
    /\ sink = <<>>
    /\ published[1] = <<"r", "e", "t", "r", "y", ":", " ", "2", "0", "0", "0", NL, NL>>


\* ------------------------------------------------------------------- C22

\* The write of c's delivery loop returned a timeout that the settings tolerate.
ToleratedTimeout(c) == ~closeOnTimeout /\ loop_write(c, "timeout")

\* The write of c's delivery loop returned an error that ends the session.
FatalError(c) == loop_write(c, "error") \/ (closeOnTimeout /\ loop_write(c, "timeout"))

\* C22: a tolerated timeout drops the message, leaves the connection open,
\* sends no stale report and lets the loop go on with its next select; any
\* other write error sets the staled flag and closes the connection, after
\* which the loop sends one stale report and ends.
C22_WriteErrorClassified ==
    [][\A c \in Conns :
          /\ ToleratedTimeout(c) =>
                /\ written'[c] = written[c]
                /\ cur'[c] = NoMsg
                /\ closes' = closes /\ staled' = staled /\ staledCh' = staledCh
                /\ pcLoop'[c] = "select"
          /\ FatalError(c) =>
                /\ staled'[c] /\ closes'[c] = closes[c] + 1
                /\ written'[c] = written[c]
                /\ pcLoop'[c] = "report"
          /\ (exitVia[c] = "error" /\ pcLoop[c] = "report" /\ pcLoop'[c] # "report") =>
                /\ staledCh' = Append(staledCh, c)
                /\ pcLoop'[c] = "done"]_vars


\* ------------------------------------------------------------------- C23

\* c's delivery loop has marked itself stale or closed its connection.
StaleOrClosed(c) == staled[c] \/ closes[c] > 0

\* C23: a session sends at most one stale report in its lifetime (a report is
\* sent only by the step that ends the loop, and an ended loop takes no further
\* step), and once it has marked itself stale or closed its connection its loop
\* neither dequeues a message nor writes to the connection, whatever is left in
\* its queue.
C23_OneReportNoWriteAfterStale ==
    [][\A c \in Conns :
          /\ Len(SelectSeq(staledCh', LAMBDA x : x = c)) > Len(SelectSeq(staledCh, LAMBDA x : x = c)) =>
                /\ pcLoop[c] = "report" /\ pcLoop'[c] = "done"
                /\ staledCh' = Append(staledCh, c)
          /\ pcLoop[c] = "done" => pcLoop'[c] = "done"
          /\ StaleOrClosed(c) =>
                /\ pcLoop[c] # "write" /\ pcLoop'[c] # "write"
                /\ written'[c] = written[c]
                /\ in'[c] = in[c] \/ nPub' = nPub + 1]_vars

\* c1 ended on a fatal write error with the second publish still in its queue,
\* and the coordinator has received its one report.
C23_Witness ==
    /\ exitVia["c1"] = "error" /\ pcLoop["c1"] = "done"
    /\ Len(in["c1"]) = 1
    /\ "c1" \notin Range(consumers) /\ staledCh = <<>>


\* ------------------------------------------------------------------- C24

\* A write of c's delivery loop has failed fatally while c is in the registry,
\* and the loop is about to report.
FailedFatally(c) ==
    /\ exitVia[c] = "error"
    /\ pcLoop[c] = "report"
    /\ c \in Range(consumers)

\* C24: while the coordinator is running, a registered session whose write
\* fails fatally eventually has sent its report (its loop has ended, not stuck
\* on the one-slot es.staled), is out of the registry and has its queue closed.
C24_FailedSessionRemoved ==
    \A c \in Conns :
        FailedFatally(c) ~>
            \/ ~Running
            \/ /\ pcLoop[c] = "done"
               /\ c \notin Range(consumers)
               /\ inClosed[c]
               /\ c \notin Range(staledCh)

C24_Witness ==
    \E c \in Conns :
        /\ Running
        /\ exitVia[c] = "error" /\ pcLoop[c] = "done" /\ staled[c]
        /\ c \notin Range(consumers) /\ inClosed[c] /\ staledCh = <<>>
        /\ removes = 1


\* ------------------------------------------------------------------- C25

\* C25: the coordinator's processing of a stale report leaves the registry
\* without the reported consumer and otherwise as it was (the other consumers,
\* in their order); when the consumer was not in the registry, the registry is
\* unchanged; and the case does not fault. The removal is one step of the
\* case; the receive before it and close(c.in) after it leave the registry
\* alone, as does every other goroutine while the coordinator is in the case.
C25_StaleProcessingIdempotent ==
    /\ [](pcCtl = "closeIn" => cStaled \notin Range(consumers))
    /\ [][/\ (pcCtl = "remove" /\ pcCtl' # "remove") =>
                \A c \in {cStaled} :
                    /\ c \notin Range(consumers')
                    /\ consumers' = SelectSeq(consumers, LAMBDA x : x # c)
                    /\ c \notin Range(consumers) => consumers' = consumers
                    /\ SelectSeq(consumers', LAMBDA x : x # c) = consumers'
                    /\ pcCtl' = "closeIn" /\ cStaled' = c
          /\ (pcCtl = "closeIn" /\ pcCtl' # "closeIn") =>
                /\ inClosed'[cStaled]
                /\ pcCtl' = "select"
          /\ (InLoop /\ ~(pcCtl = "remove" /\ pcCtl' # "remove") /\ adds' = adds) =>
                consumers' = consumers
          /\ StaleStep => (crash' = crash /\ panics' = panics)]_vars

\* The report of c1 was processed before its registration, next to a registered
\* c2: the registry still holds c2 alone and the coordinator runs.
C25_Witness ==
    /\ Running
    /\ exitVia["c1"] = "idle" /\ pcLoop["c1"] = "done" /\ inClosed["c1"]
    /\ staledCh = <<>> /\ removes = 0
    /\ pcServe["c1"] = "add"
    /\ consumers = <<"c2">>


\* ------------------------------------------------------------------- C26

\* C26: no consumer is in the registry twice, and the registry is in the order
\* in which the coordinator processed the registrations. The coordinator
\* receives a registration from a ServeHTTP waiting on es.add, which returns
\* there and never sends again; the registry is as it was. The PushBack that
\* follows puts that consumer, which is not in the registry, behind all that
\* are, before the coordinator receives anything else. Every other step that
\* changes the registry only takes consumers out, leaving the rest in their
\* order.
C26_RegistryOnceInOrder ==
    /\ [](\A i, j \in DOMAIN consumers : consumers[i] = consumers[j] => i = j)
    /\ [][/\ (pcCtl # "push" /\ pcCtl' = "push") =>
                \E c \in Conns \ Range(consumers) :
                    /\ pcCtl = "select"
                    /\ pcServe[c] = "add" /\ pcServe'[c] = "returned"
                    /\ cAdd' = c
                    /\ consumers' = consumers
          /\ (pcCtl = "push" /\ pcCtl' # "push") =>
                \E c \in Conns \ Range(consumers) :
                    /\ c = cAdd
                    /\ consumers' = Append(consumers, c)
                    /\ adds' = adds + 1
                    /\ pcCtl' = "select"
          /\ pcCtl = "push" =>
                /\ pcCtl' \in {"push", "select"}
                /\ nPub' = nPub /\ cStaled' = cStaled /\ removes' = removes
          /\ \A c \in Conns : pcServe[c] = "returned" => pcServe'[c] = "returned"
          /\ ~(pcCtl = "push" /\ pcCtl' # "push") =>
                consumers' = SelectSeq(consumers, LAMBDA x : x \in Range(consumers'))]_vars

\* c2 was registered before c1, and both are in the registry in that order.
C26_Witness == adds = 2 /\ removes = 0 /\ consumers = <<"c2", "c1">>


\* ------------------------------------------------------------------- C27

\* c's delivery goroutine has not returned, and so its idle timer has not been
\* stopped: idleTimer.Stop() is deferred and runs at the return, after the
\* send of the stale report, so a timer armed before a fatal write error still
\* runs while the goroutine waits at es.staled <- consumer.
TimerOn(c) == pcLoop[c] \in {"select", "write", "report"}

\* One unit of time passes. Every running idle timer that has not expired
\* advances, and a timer that reaches IdleTimeout expires: the runtime sends a
\* value to its channel idleTimer.C, where it stays until the select takes it.
Tick ==
    /\ Alive
    /\ \E c \in Conns : TimerOn(c) /\ elapsed[c] < IdleTimeout
    /\ elapsed' = [c \in Conns |->
                      IF TimerOn(c) /\ elapsed[c] < IdleTimeout
                      THEN elapsed[c] + 1 ELSE elapsed[c]]
    /\ tickC' = [c \in Conns |->
                    tickC[c] \/ (TimerOn(c) /\ elapsed[c] + 1 = IdleTimeout)]
    /\ UNCHANGED <<closeOnTimeout, sink, staledCh, shut, consumers, pcCtl, pcServe,
                   pcLoop, in, inClosed, staled, cur, closes, written, nSend, nClose,
                   panics, crash, nPub, published, regAt, full, wfail, exitVia, atClose,
                   hdr, adds, removes, gzipped, zerr, netCloses, qi, cStaled, cAdd>>

\* Sessions under a clock: connections served concurrently, a ticker
\* that numbers its events, every outcome of a write, and an idle case that the
\* select takes only when idleTimer.C holds a value.
NextTimed ==
    \/ nSend < MaxSend /\ sendMessage(BurstMessage(nSend + 1))
    \/ \E c \in Conns : newConsumer(c, FALSE, 0)
    \/ controlProcess_sink
    \/ \E c \in Conns : controlProcess_add(c)
    \/ controlProcess_addPush
    \/ controlProcess_staled
    \/ controlProcess_staledRemove
    \/ controlProcess_staledClose
    \/ Tick
    \/ \E c \in Conns : loop_recv(c)
    \/ \E c \in Conns, res \in WriteResults : loop_write(c, res)
    \/ \E c \in Conns : tickC[c] /\ loop_idle(c)
    \/ \E c \in Conns : loop_report(c)

Timed == Init /\ [][NextTimed]_vars

\* C27: the idle timer is armed anew after every dequeued message whose write
\* succeeds or fails with a tolerated timeout; the loop takes its idle case only
\* when a full IdleTimeout has passed since the timer was last armed (at the
\* select no message has been dequeued since); and a publish, whether queued
\* or dropped on a full queue, leaves every timer as it is.
C27_IdleOnlyAfterFullTimeout ==
    [][\A c \in Conns :
          /\ (pcLoop[c] = "write" /\ pcLoop'[c] = "select") => elapsed'[c] = 0
          /\ (exitVia[c] = "none" /\ exitVia'[c] = "idle") => elapsed[c] = IdleTimeout
          /\ nPub' = nPub + 1 => (elapsed' = elapsed /\ tickC' = tickC)]_vars


\* ------------------------------------------------------------------- C28

\* C28: every consumer in the registry has a queue that has not been closed,
\* and the coordinator has not panicked on a queue (a send of a published
\* message on a closed queue, or a second close of a queue).
C28_RegisteredQueuesOpen ==
    /\ \A c \in Range(consumers) : ~inClosed[c]
    /\ pcCtl # "panicked"


\* ------------------------------------------------------------------- C29

\* The handshake of c succeeded and its delivery loop has not ended.
LoopActive(c) == pcLoop[c] \in {"select", "write", "report"}

\* C29: once shutdown has been processed, every session whose handshake
\* succeeded and whose loop is still active, registered or not, eventually has
\* its connection closed (once) and its loop ended by a return, with no panic
\* anywhere in the process.
C29_ShutdownEndsEverySession ==
    \A c \in Conns :
        (ShutDown /\ LoopActive(c)) ~>
            (pcLoop[c] = "done" /\ closes[c] = 1 /\ crash = "none")


\* ------------------------------------------------------------------- C30

\* Shutdown has closed c's queue, and c's idle timer has not fired nor has a
\* write of c failed fatally.
Draining(c) ==
    /\ c \in Range(atClose)
    /\ inClosed[c]
    /\ exitVia[c] \in {"none", "closed"}

\* The step is a write of c's loop that fails (with a tolerated timeout, the
\* loop going on).
WriteFails(c) == pcLoop[c] = "write" /\ pcLoop'[c] # "write" /\ written'[c] = written[c]

\* C30: from the moment shutdown closes c's queue, as long as every write
\* succeeds and the idle timer does not fire, what c has written, followed by
\* the message in flight and the messages still buffered, stays the same
\* sequence (each step of the loop moves the front message on, none is lost or
\* overtaken); and the loop has seen the queue as closed and closed the
\* connection only when nothing is buffered or in flight any more.
C30_BufferedWrittenBeforeClose ==
    /\ [](\A c \in Conns :
              exitVia[c] = "closed" =>
                  /\ in[c] = <<>> /\ cur[c] = NoMsg
                  /\ closes[c] = 1)
    /\ [][\A c \in Conns :
              (Draining(c) /\ Draining(c)' /\ ~WriteFails(c)) =>
                  /\ written'[c] \o InFlight(c)' \o in'[c] = written[c] \o InFlight(c) \o in[c]
                  /\ Len(written'[c]) >= Len(written[c])]_vars

\* Shutdown has closed c1's queue while the second publish was still buffered
\* in it: the loop, which has written the first, is at its select with the
\* closed queue holding that message.
C30_Witness ==
    /\ Draining("c1") /\ ~wfail["c1"]
    /\ pcLoop["c1"] = "select"
    /\ Len(written["c1"]) = 1 /\ written["c1"][1].n = 1
    /\ Len(in["c1"]) = 1 /\ in["c1"][1].n = 2


\* ------------------------------------------------------------------- C31

\* The positions at which a newline is directly followed by another.
DoubleNewlines(s) == {i \in 1..(Len(s) - 1) : s[i] = NL /\ s[i + 1] = NL}

\* The positions of the newlines that end an empty line of s.
EmptyLineEnds(s) == {i \in 1..Len(s) : s[i] = NL /\ (i = 1 \/ s[i - 1] = NL)}

\* All three fields of the message are empty.
NoField(m) == m.id = <<>> /\ m.event = <<>> /\ m.data = <<>>

\* C31 as claimed: in the frame of every event message the two-newline
\* sequence occurs exactly once, at the very end.
C31_DoubleNewlineOnceAtEnd ==
    [][nPub' = nPub + 1 =>
          \A enc \in {Encoded} : DoubleNewlines(enc) = {Len(enc) - 1}]_vars

\* C31, amended: the only empty line of the frame of every event message is
\* its last line. When a field is not empty the frame ends with the
\* two-newline sequence, which occurs nowhere else in it; the message with
\* three empty fields encodes as a single newline, in which the sequence does
\* not occur at all.
C31_EmptyLineOnlyAtEnd ==
    [][nPub' = nPub + 1 =>
          \A enc \in {Encoded} :
              /\ EmptyLineEnds(enc) = {Len(enc)}
              /\ IF NoField(Head(sink))
                 THEN enc = <<NL>> /\ DoubleNewlines(enc) = {}
                 ELSE DoubleNewlines(enc) = {Len(enc) - 1}]_vars

\* An id and data made of newlines only: the id line is left without a value,
\* every data segment gets its own line, and the frame still has one empty line.
C31_Witness ==
    /\ nPub = 1 /\ sink = <<>>
    /\ published[1] = <<"i", "d", ":", " ", NL,
                         "d", "a", "t", "a", ":", " ", NL,
                         "d", "a", "t", "a", ":", " ", NL,
                         "d", "a", "t", "a", ":", " ", NL, NL>>


\* ------------------------------------------------------------------- C32

\* Sessions with and without compression: connections served concurrently,
\* each with either compression decision, a ticker that numbers its
\* events, one shutdown, and every outcome of a write, of the idle timer and of
\* closing the gzip writer.
NextGzip ==
    \/ nSend < MaxSend /\ sendMessage(BurstMessage(nSend + 1))
    \/ nClose = 0 /\ Close
    \/ \E c \in Conns, gz \in BOOLEAN : newConsumer(c, gz, 0)
    \/ \E c \in Conns : ServeHTTP_addClosed(c)
    \/ controlProcess_sink
    \/ \E c \in Conns : controlProcess_add(c)
    \/ controlProcess_addPush
    \/ controlProcess_staled
    \/ controlProcess_staledRemove
    \/ controlProcess_staledClose
    \/ controlProcess_closeChan
    \/ controlProcess_closeQueue
    \/ controlProcess_closeInit
    \/ \E c \in Conns : loop_recv(c)
    \/ \E c \in Conns : loop_closed(c)
    \/ \E c \in Conns, res \in WriteResults : loop_write(c, res)
    \/ \E c \in Conns : loop_idle(c)
    \/ \E c \in Conns : loop_report(c)

Gzip == Init /\ [][NextGzip]_vars

\* C32: whenever the delivery loop of a session that writes through the gzip
\* wrapper closes the session's connection, the underlying network connection
\* is closed, also when closing the gzip writer returns an error.
C32_GzipCloseClosesConnection ==
    [][\A c \in Conns :
          (gzipped[c] /\ closes'[c] = closes[c] + 1) =>
              netCloses'[c] = netCloses[c] + 1]_vars

====
